---- MODULE Spec2Model ----
(***************************************************************************)
(* Model of src/sources/kubernetes_logs/path_helpers.rs: the helpers that  *)
(* build the log directory of a pod and parse the path of a pod log file.  *)
(*                                                                         *)
(* Strings are sequences of one-character strings.  The model is that of   *)
(* the cfg(not(target_os = "windows")) build: the only separator is "/"    *)
(* and a path has no prefix component.                                     *)
(***************************************************************************)
EXTENDS Integers, Sequences, FiniteSets, TLC

\* ---------------------------------------------------------------- bounds
\* the longest namespace, name and uid together; the longest container and
\* file name together; the longest path handed to the parser without and
\* with "." in it; the longest text put in front of a path; the longest
\* replacement of a segment
MaxPodLen == 2
MaxNamesLen == 2
MaxPathLen == 7
MaxDotPathLen == 5
MaxPrefixLen == 2
MaxSegmentLen == 1

FieldChars == {"/", "_", "a"}
NameChars == {"/", ".", "a"}
PathChars == {"/", "_", "a"}
DotPathChars == PathChars \cup {"."}

SeqsUpTo(S, n) == UNION {[1..k -> S] : k \in 0..n}

\* (namespace, name, uid) and (container, file) of the calls of the builder
PodsOver(chars) ==
    {t \in SeqsUpTo(chars, MaxPodLen) \X SeqsUpTo(chars, MaxPodLen)
            \X SeqsUpTo(chars, MaxPodLen) :
        Len(t[1]) + Len(t[2]) + Len(t[3]) <= MaxPodLen}
Pods == PodsOver(FieldChars)
LogFiles ==
    {t \in SeqsUpTo(NameChars, MaxNamesLen) \X SeqsUpTo(NameChars, MaxNamesLen) :
        Len(t[1]) + Len(t[2]) <= MaxNamesLen}
\* the paths of the calls of the parser
Paths == SeqsUpTo(PathChars, MaxPathLen) \cup SeqsUpTo(DotPathChars, MaxDotPathLen)

\* ------------------------------------------------------------- constants
\* get_k8s_logs_dir(), cfg(not(target_os = "windows")) arm
K8S_LOGS_DIR == <<"/", "v", "a", "r", "/", "l", "o", "g", "/", "p", "o", "d", "s">>

\* Option<T>
None == [tag |-> "None"]
Some(v) == [tag |-> "Some", value |-> v]

\* ------------------------------------------------------------ the builder
\* the fields in the order name, namespace, uid
format_name_first(pod_namespace, pod_name, pod_uid) ==
    pod_name \o <<"_">> \o pod_namespace \o <<"_">> \o pod_uid

\* the uid left out of the directory name
format_without_uid(pod_namespace, pod_name, pod_uid) ==
    pod_namespace \o <<"_">> \o pod_name \o <<"_">>

\* format!("{}_{}_{}", pod_namespace, pod_name, pod_uid)
format(pod_namespace, pod_name, pod_uid) ==
    pod_namespace \o <<"_">> \o pod_name \o <<"_">> \o pod_uid

is_sep_byte(b) == b = "/"

\* Path::has_root / Path::is_absolute on a platform without prefixes
has_root(p) == Len(p) > 0 /\ is_sep_byte(p[1])

\* Path::join = PathBuf::push on a copy: an absolute argument replaces the
\* base, otherwise it is appended after a separator the base may lack.
join(base, p) ==
    LET need_sep == base # <<>> /\ ~is_sep_byte(base[Len(base)])
    IN  IF has_root(p) THEN p
        ELSE IF need_sep THEN base \o <<"/">> \o p
        ELSE base \o p

build_pod_logs_directory(pod_namespace, pod_name, pod_uid) ==
    LET log_dir == K8S_LOGS_DIR
    IN  join(log_dir, format(pod_namespace, pod_name, pod_uid))

\* ------------------------------------------------------------- the parser
\* std::path::Components as built by Path::iter(): the unparsed slice and
\* the positions of the two ends (Prefix < StartDir < Body < Done).
Prefix == 0
StartDir == 1
Body == 2
Done == 3

iter(path) ==
    [path |-> path, has_physical_root |-> has_root(path),
     front |-> Prefix, back |-> Body]

finished(self) ==
    self.front = Done \/ self.back = Done \/ self.front > self.back

include_cur_dir(self) ==
    /\ ~self.has_physical_root
    /\ Len(self.path) >= 1
    /\ self.path[1] = "."
    /\ (Len(self.path) = 1 \/ is_sep_byte(self.path[2]))

\* a root counted before the body whether the path has one or not
len_before_body_rooted(self) ==
    LET cur_dir == IF self.front <= StartDir /\ include_cur_dir(self) THEN 1 ELSE 0
    IN  1 + cur_dir

len_before_body(self) ==
    LET root == IF self.front <= StartDir /\ self.has_physical_root THEN 1 ELSE 0
        cur_dir == IF self.front <= StartDir /\ include_cur_dir(self) THEN 1 ELSE 0
    IN  root + cur_dir

\* the empty piece between two separators kept as a component
parse_single_component_keep_empty(comp) ==
    IF comp = <<".">> THEN None ELSE Some(comp)

\* "." and "" are not components; ".." and any other text are.
parse_single_component(comp) ==
    IF comp = <<".">> \/ comp = <<>> THEN None ELSE Some(comp)

\* the last separator-delimited piece of the body, and the bytes it takes
parse_next_component_back(self) ==
    LET start == len_before_body(self)
        body == SubSeq(self.path, start + 1, Len(self.path))
        seps == {i \in 1..Len(body) : is_sep_byte(body[i])}
        last == IF seps = {} THEN 0 ELSE CHOOSE i \in seps : \A j \in seps : j <= i
        comp == SubSeq(body, last + 1, Len(body))
        extra == IF seps = {} THEN 0 ELSE 1
    IN  [size |-> Len(comp) + extra, comp |-> parse_single_component(comp)]

drop_back(self, n) ==
    [self EXCEPT !.path = SubSeq(self.path, 1, Len(self.path) - n)]

\* Rev<Iter>::next = Components::next_back: the item and the iterator after
RECURSIVE next_back(_)
next_back(self) ==
    IF finished(self) THEN [item |-> None, self |-> self]
    ELSE IF self.back = Body /\ Len(self.path) > len_before_body(self) THEN
        LET r == parse_next_component_back(self)
            rest == drop_back(self, r.size)
        IN  IF r.comp # None THEN [item |-> r.comp, self |-> rest]
            ELSE next_back(rest)
    ELSE IF self.back = Body THEN next_back([self EXCEPT !.back = StartDir])
    ELSE IF self.back = StartDir THEN
        LET s == [self EXCEPT !.back = Prefix]
        IN  IF self.has_physical_root THEN
                [item |-> Some(<<"/">>), self |-> drop_back(s, 1)]
            ELSE IF include_cur_dir(self) THEN
                [item |-> Some(<<".">>), self |-> drop_back(s, 1)]
            ELSE next_back(s)
    ELSE [item |-> None, self |-> [self EXCEPT !.back = Done]]

\* str::split('_'), collected: the fields between the separators
RECURSIVE split(_, _)
split(s, ch) ==
    LET hits == {i \in 1..Len(s) : s[i] = ch}
    IN  IF hits = {} THEN <<s>>
        ELSE LET i == CHOOSE k \in hits : \A j \in hits : k <= j
             IN  <<SubSeq(s, 1, i - 1)>> \o split(SubSeq(s, i + 1, Len(s)), ch)

\* splitn(3, '_'): the third field keeps everything after the second "_"
pod_dir_components_splitn(pod_dir) ==
    LET hits == {i \in 1..Len(pod_dir) : pod_dir[i] = "_"}
        first(h) == CHOOSE k \in h : \A j \in h : k <= j
    IN  IF hits = {} THEN <<pod_dir>>
        ELSE LET i1 == first(hits)
                 later == hits \ {i1}
             IN  IF later = {} THEN
                     <<SubSeq(pod_dir, 1, i1 - 1), SubSeq(pod_dir, i1 + 1, Len(pod_dir))>>
                 ELSE LET i2 == first(later)
                      IN  <<SubSeq(pod_dir, 1, i1 - 1), SubSeq(pod_dir, i1 + 1, i2 - 1),
                            SubSeq(pod_dir, i2 + 1, Len(pod_dir))>>

\* pod_dir.split('_')
pod_dir_components(pod_dir) == split(pod_dir, "_")

\* a missing field read as the empty string (next().unwrap_or(""))
next_or_empty(fields) ==
    IF fields = <<>> THEN [item |-> Some(<<>>), rest |-> <<>>]
    ELSE [item |-> Some(Head(fields)), rest |-> Tail(fields)]

\* an empty field read as a missing one
next_nonempty(fields) ==
    IF fields = <<>> \/ Head(fields) = <<>> THEN [item |-> None, rest |-> <<>>]
    ELSE [item |-> Some(Head(fields)), rest |-> Tail(fields)]

\* Iterator::next on the collected split
next(fields) ==
    IF fields = <<>> THEN [item |-> None, rest |-> <<>>]
    ELSE [item |-> Some(Head(fields)), rest |-> Tail(fields)]

\* the record with pod_name and pod_uid exchanged
LogFileInfo_uid_as_name(pod_namespace, pod_name, pod_uid, container_name) ==
    [pod_namespace |-> pod_namespace, pod_name |-> pod_uid,
     pod_uid |-> pod_name, container_name |-> container_name]

LogFileInfo(pod_namespace, pod_name, pod_uid, container_name) ==
    [pod_namespace |-> pod_namespace, pod_name |-> pod_name,
     pod_uid |-> pod_uid, container_name |-> container_name]

\* the second half of parse_log_file_path: the pod directory name split
\* into its first three fields, each `?` returning None when one is missing
parse_pod_dir(pod_dir, container_name) ==
    LET f1 == next(pod_dir_components(pod_dir))
        f2 == next(f1.rest)
        f3 == next(f2.rest)
    IN  IF f1.item = None THEN None
        ELSE IF f2.item = None THEN None
        ELSE IF f3.item = None THEN None
        ELSE LET pod_namespace == f1.item.value
                 pod_name == f2.item.value
                 pod_uid == f3.item.value
             IN  Some(LogFileInfo(pod_namespace, pod_name, pod_uid, container_name))

\* the log file name not skipped: the last component read as the container
parse_log_file_path_keep_file_name(path) ==
    LET components == iter(path)
        c1 == next_back(components)
        c2 == next_back(c1.self)
    IN  IF c1.item = None THEN None
        ELSE IF c2.item = None THEN None
        ELSE parse_pod_dir(c2.item.value, c1.item.value)

\* the first half: the last three components, from the last one backward;
\* to_str() cannot fail on a component of a &str
parse_log_file_path(path) ==
    LET components == iter(path)
        c1 == next_back(components)
        c2 == next_back(c1.self)
        c3 == next_back(c2.self)
    IN  IF c1.item = None THEN None
        ELSE IF c2.item = None THEN None
        ELSE IF c3.item = None THEN None
        ELSE LET container_name == c2.item.value
                 pod_dir == c3.item.value
             IN  parse_pod_dir(pod_dir, container_name)

\* ------------------------------------------------------ the state machine
VARIABLES pod_namespace, pod_name, pod_uid, container, file,
          path, dir, info, pc

vars == <<pod_namespace, pod_name, pod_uid, container, file, path, dir, info, pc>>

\* a pod and one log file of one of its containers, nothing built yet
Init ==
    /\ pc = "start"
    /\ \E pod \in Pods :
         /\ pod_namespace = pod[1]
         /\ pod_name = pod[2]
         /\ pod_uid = pod[3]
    /\ \E names \in LogFiles :
         /\ container = names[1]
         /\ file = names[2]
    /\ path = <<>>
    /\ dir = <<>>
    /\ info = None

\* a path found on disk, of any shape, about to be parsed
InitParse ==
    /\ pc = "found"
    /\ path \in Paths
    /\ pod_namespace = <<>>
    /\ pod_name = <<>>
    /\ pod_uid = <<>>
    /\ container = <<>>
    /\ file = <<>>
    /\ dir = <<>>
    /\ info = None

BuildPodLogsDirectory ==
    /\ pc = "start"
    /\ dir' = build_pod_logs_directory(pod_namespace, pod_name, pod_uid)
    /\ pc' = "built"
    /\ UNCHANGED <<pod_namespace, pod_name, pod_uid, container, file, path, info>>

\* the log file of the container under the pod's directory:
\* <dir>/<container_name>/<log_file_name>
LogFileOfContainer ==
    /\ pc = "built"
    /\ path' = dir \o <<"/">> \o container \o <<"/">> \o file
    /\ pc' = "found"
    /\ UNCHANGED <<pod_namespace, pod_name, pod_uid, container, file, dir, info>>

ParseLogFilePath ==
    /\ pc = "found"
    /\ info' = parse_log_file_path(path)
    /\ pc' = "parsed"
    /\ UNCHANGED <<pod_namespace, pod_name, pod_uid, container, file, path, dir>>

\* build the directory of a pod, find a log file under it, parse its path
Next ==
    \/ BuildPodLogsDirectory
    \/ LogFileOfContainer
    \/ ParseLogFilePath

Spec == Init /\ [][Next]_vars

\* parse any path
NextParse == ParseLogFilePath

SpecParse == InitParse /\ [][NextParse]_vars

\* ------------------------------------------------- what the claims speak of
\* The segments of a path, first to last, as std::path documents them: the
\* root if the path is rooted, a leading "." of a relative path, then every
\* piece between separators that is neither empty nor ".".
RECURSIVE keep_named(_)
keep_named(pieces) ==
    IF pieces = <<>> THEN <<>>
    ELSE IF Head(pieces) = <<>> \/ Head(pieces) = <<".">> THEN keep_named(Tail(pieces))
    ELSE <<Head(pieces)>> \o keep_named(Tail(pieces))

Segments(p) ==
    LET pieces == split(p, "/")
        lead == IF has_root(p) THEN << <<"/">> >>
                ELSE IF Head(pieces) = <<".">> THEN << <<".">> >>
                ELSE <<>>
    IN  lead \o keep_named(pieces)

Last(s) == s[Len(s)]
SecondToLast(s) == s[Len(s) - 1]
ThirdToLast(s) == s[Len(s) - 2]
LastThree(s) == SubSeq(s, Len(s) - 2, Len(s))
AllButLast(s) == SubSeq(s, 1, Len(s) - 1)

Count(s, ch) == Cardinality({i \in 1..Len(s) : s[i] = ch})
Has(s, ch) == \E i \in 1..Len(s) : s[i] = ch
StartsWith(s, pre) == Len(s) >= Len(pre) /\ SubSeq(s, 1, Len(pre)) = pre

\* the k-th occurrence of ch in s
Nth(s, ch, k) ==
    CHOOSE i \in 1..Len(s) : s[i] = ch /\ Count(SubSeq(s, 1, i), ch) = k

\* the segments written out as a path, one separator between neighbours
RECURSIVE JoinSegments(_)
JoinSegments(segs) ==
    IF segs = <<>> THEN <<>>
    ELSE IF Len(segs) = 1 THEN Head(segs)
    ELSE Head(segs) \o <<"/">> \o JoinSegments(Tail(segs))

\* texts put in front of a path, and texts that are one segment
PrefixTexts == SeqsUpTo(DotPathChars, MaxPrefixLen)
SegmentTexts ==
    {t \in SeqsUpTo(DotPathChars, MaxSegmentLen) : t # <<>> /\ t # <<".">> /\ ~Has(t, "/")}

Parsed == pc = "parsed"
SegmentsOfPath == Segments(path)

\* C1: for every triple the builder returns root, one separator, then
\* namespace "_" name "_" uid.
C1_BuildIsRootSeparatorName ==
    pc # "start" =>
        dir = K8S_LOGS_DIR \o <<"/">> \o pod_namespace \o <<"_">>
                \o pod_name \o <<"_">> \o pod_uid

\* C2, as stated: whenever namespace, name and uid hold no "_", parsing
\* <dir>/<container>/<file> gives back (namespace, name, uid, container).
C2_RoundTripAnyNames ==
    (Parsed
       /\ ~Has(pod_namespace, "_") /\ ~Has(pod_name, "_") /\ ~Has(pod_uid, "_"))
    => info = Some(LogFileInfo(pod_namespace, pod_name, pod_uid, container))

PlainField(s) == ~Has(s, "_") /\ ~Has(s, "/")
PlainName(s) == s # <<>> /\ s # <<".">> /\ ~Has(s, "/")

\* C2, amended: the round trip holds when namespace, name and uid hold
\* neither "_" nor a separator and container and file are each one segment
\* (not empty, not ".", no separator).
C2_RoundTrip ==
    (Parsed
       /\ PlainField(pod_namespace) /\ PlainField(pod_name) /\ PlainField(pod_uid)
       /\ PlainName(container) /\ PlainName(file))
    => info = Some(LogFileInfo(pod_namespace, pod_name, pod_uid, container))

C2_Witness ==
    /\ Parsed
    /\ pod_namespace = <<"a">> /\ pod_name = <<>> /\ pod_uid = <<"a">>
    /\ PlainName(container) /\ PlainName(file)
    /\ info = Some(LogFileInfo(<<"a">>, <<>>, <<"a">>, container))

\* C3: a returned record holds the second-to-last segment as container_name
\* and the first three "_"-fields of the third-to-last segment as
\* pod_namespace, pod_name, pod_uid.
C3_RecordFields ==
    (Parsed /\ info # None) =>
        LET s == SegmentsOfPath
        IN  /\ Len(s) >= 3
            /\ info.value.container_name = SecondToLast(s)
            /\ LET f == split(ThirdToLast(s), "_")
               IN  /\ Len(f) >= 3
                   /\ info.value.pod_namespace = f[1]
                   /\ info.value.pod_name = f[2]
                   /\ info.value.pod_uid = f[3]

C3_Witness ==
    /\ Parsed /\ info # None
    /\ info.value.pod_namespace # info.value.pod_name
    /\ info.value.pod_name # info.value.pod_uid
    /\ info.value.container_name # <<>>

\* C4: a path of fewer than three segments parses to None.
C4_FewSegmentsNone ==
    (Parsed /\ Len(SegmentsOfPath) < 3) => info = None

C4_Witness ==
    /\ Parsed
    /\ Len(SegmentsOfPath) = 2
    /\ Count(SegmentsOfPath[1], "_") = 2
    /\ info = None

\* C5: a third-to-last segment with fewer than two "_" parses to None.
C5_FewUnderscoresNone ==
    (Parsed /\ Len(SegmentsOfPath) >= 3
       /\ Count(ThirdToLast(SegmentsOfPath), "_") < 2)
    => info = None

C5_Witness ==
    /\ Parsed /\ Len(SegmentsOfPath) >= 3
    /\ Count(ThirdToLast(SegmentsOfPath), "_") = 1
    /\ info = None

\* C7: with more than two "_" in the pod directory segment a record is
\* still returned; pod_uid is the text between the second and third "_".
C7_LeftoverDropped ==
    (Parsed /\ Len(SegmentsOfPath) >= 3
       /\ Count(ThirdToLast(SegmentsOfPath), "_") > 2)
    => LET d == ThirdToLast(SegmentsOfPath)
           i1 == Nth(d, "_", 1)
           i2 == Nth(d, "_", 2)
           i3 == Nth(d, "_", 3)
       IN  /\ info # None
           /\ info.value.pod_namespace = SubSeq(d, 1, i1 - 1)
           /\ info.value.pod_name = SubSeq(d, i1 + 1, i2 - 1)
           /\ info.value.pod_uid = SubSeq(d, i2 + 1, i3 - 1)
           /\ ~Has(info.value.pod_uid, "_")

C7_Witness ==
    /\ Parsed /\ Len(SegmentsOfPath) >= 3
    /\ Count(ThirdToLast(SegmentsOfPath), "_") > 2
    /\ info # None
    /\ Len(ThirdToLast(SegmentsOfPath))
         > Len(info.value.pod_namespace) + Len(info.value.pod_name)
             + Len(info.value.pod_uid) + 2

\* C10: at least three segments and at least two "_" in the third-to-last
\* give a record; a pod directory segment "__" gives three empty fields.
C10_ShapeGivesRecord ==
    (Parsed /\ Len(SegmentsOfPath) >= 3
       /\ Count(ThirdToLast(SegmentsOfPath), "_") >= 2)
    => /\ info # None
       /\ ThirdToLast(SegmentsOfPath) = <<"_", "_">> =>
            /\ info.value.pod_namespace = <<>>
            /\ info.value.pod_name = <<>>
            /\ info.value.pod_uid = <<>>

C10_Witness ==
    /\ Parsed
    /\ Len(SegmentsOfPath) >= 3
    /\ ThirdToLast(SegmentsOfPath) = <<"_", "_">>
    /\ info = Some(LogFileInfo(<<>>, <<>>, <<>>, SecondToLast(SegmentsOfPath)))

\* C6: the result depends only on the last three segments: whatever text
\* is put in front of them, as long as the last three segments stay the
\* same, the path parses to the same result (so two paths with the same
\* last three segments parse alike), and a path of the right shape need
\* not begin with the root logs directory to parse.
C6_RootIndependence ==
    (Parsed /\ Len(SegmentsOfPath) >= 3) =>
        /\ \A pre \in PrefixTexts :
             LET q == pre \o JoinSegments(LastThree(SegmentsOfPath))
             IN  (Len(Segments(q)) >= 3
                    /\ LastThree(Segments(q)) = LastThree(SegmentsOfPath))
                 => parse_log_file_path(q) = info
        /\ (Count(ThirdToLast(SegmentsOfPath), "_") >= 2
              /\ ~StartsWith(path, K8S_LOGS_DIR)) => info # None

C6_Witness ==
    /\ Parsed /\ info # None
    /\ Len(SegmentsOfPath) = 3
    /\ ~StartsWith(path, K8S_LOGS_DIR)
    /\ \E pre \in PrefixTexts :
         LET q == pre \o JoinSegments(LastThree(SegmentsOfPath))
         IN  /\ Len(Segments(q)) > 3
             /\ LastThree(Segments(q)) = SegmentsOfPath
             /\ parse_log_file_path(q) = info

\* C8: the last segment is not used: with any other text as its last
\* segment the path parses to the same result (so two paths that differ
\* only in their last segment parse alike).
C8_FileNameUnused ==
    (Parsed /\ Len(SegmentsOfPath) >= 1) =>
        \A t \in SegmentTexts :
            LET q == JoinSegments(AllButLast(SegmentsOfPath) \o <<t>>)
            IN  Segments(q) = AllButLast(SegmentsOfPath) \o <<t>>
                => parse_log_file_path(q) = info

C8_Witness ==
    /\ Parsed /\ info # None
    /\ \E t \in SegmentTexts :
         LET q == JoinSegments(AllButLast(SegmentsOfPath) \o <<t>>)
         IN  /\ Segments(q) = AllButLast(SegmentsOfPath) \o <<t>>
             /\ t # Last(SegmentsOfPath)
             /\ parse_log_file_path(q) = info

\* the pods whose fields hold neither "_" nor a separator
PlainPods == PodsOver(FieldChars \ {"_", "/"})

\* C9: two triples of fields without "_" and without a separator that
\* differ never build the same directory; with "_" allowed they can:
\* ("a_b","c","d") and ("a","b_c","d").
C9_BuildInjective ==
    /\ (pc = "built" /\ PlainField(pod_namespace) /\ PlainField(pod_name)
          /\ PlainField(pod_uid))
       => \A pod \in PlainPods :
            build_pod_logs_directory(pod[1], pod[2], pod[3]) = dir
            => pod = <<pod_namespace, pod_name, pod_uid>>
    /\ build_pod_logs_directory(<<"a", "_", "b">>, <<"c">>, <<"d">>)
         = build_pod_logs_directory(<<"a">>, <<"b", "_", "c">>, <<"d">>)

C9_Witness ==
    /\ pc = "built"
    /\ pod_namespace = <<"a">> /\ pod_name = <<>> /\ pod_uid = <<"a">>
    /\ dir = K8S_LOGS_DIR \o <<"/", "a", "_", "_", "a">>
====
